---- MODULE Spec2Model ----
(***************************************************************************)
(* Ouroboros: the background consciousness scheduler                       *)
(* (BackgroundConsciousness), the persisted state it shares with the       *)
(* foreground agent, and the foreground message handlers of the daemon     *)
(* (POST /api/message) and of the CLI (readline line handler).             *)
(*                                                                         *)
(* Node.js runs every callback to its next await without interleaving, so  *)
(* each action below is one such run-to-completion step: a timer callback  *)
(* up to the await of the episode, the continuation after that await, an   *)
(* HTTP handler up to the await of the request body, and so on.            *)
(* Money is counted in cents and time in milliseconds.  Only differences   *)
(* of clock readings matter to the program (a timer's delay, the age of    *)
(* the last tick), so the model keeps those differences instead of         *)
(* Date.now(): each pending timer carries the time left until it is due,   *)
(* and lastTick carries Date.now() - lastTickAt.                           *)
(***************************************************************************)
EXTENDS Integers, FiniteSets, Sequences, TLC

\* ---- program constants -------------------------------------------------
DEEP_TICK_INTERVAL == 3
LIGHT_TIMEOUT_MS == 120000
DEEP_TIMEOUT_MS == 300000
WATCHDOG_INTERVAL_MS == 60000
WATCHDOG_STREAK == 5
MinWakeupSec == 30
MaxWakeupSec == 7200
DefaultWakeupSec == 300
DefaultBgBudgetPct == 10

\* ---- bounds of the model -----------------------------------------------
MaxTimers == 2      \* timers pending in the event loop at once
MaxInFlight == 2    \* background episodes awaiting their LLM call at once
MaxTicks == 3       \* value the tick counter may reach
MaxSpend == 11      \* cents the ledger may reach
CadenceTicks == 12  \* value the tick counter may reach in SpecCadence
MaxUpdates == 2     \* updateBudget calls of a run of SpecStateFile, of SpecLedger
MaxLimit == 8       \* largest budget limit given to budgetRemaining
E2ETicks == 4       \* value the tick counter may reach in SpecE2E
EpisodeTicks == 6    \* value the tick counter may reach in SpecEpisode
MaxObservations == 2 \* observations injected in a run of SpecEpisode
MaxAppends == 6     \* appendLog calls of a run of SpecLog

\* ---- inputs --------------------------------------------------------------
\* What an LLM call (SDK query) can come back with: a result message with
\* its cost and turn count, an AbortError (the wall-clock timeout), or any
\* other exception.
LlmOutcomes ==
  { [kind |-> "result", cost |-> 0, turns |-> 0],
    [kind |-> "result", cost |-> 11, turns |-> 1],
    [kind |-> "abort",  cost |-> 0, turns |-> 0],
    [kind |-> "throw",  cost |-> 0, turns |-> 0] }

\* the foreground message handlers: two, so that one can arrive while the
\* other is being served
Reqs == {1, 2}
TimerIds == 1..MaxTimers
NoTimer == 0

VARIABLES
  mode,         \* "daemon" | "cli": which entry point owns the scheduler
  config,       \* AppConfig fields the scheduler reads
  running,      \* BackgroundConsciousness.running
  paused,       \* BackgroundConsciousness.paused
  timer,        \* BackgroundConsciousness.timer (a timer id, or NoTimer)
  timers,       \* timers pending in the event loop: [id, wait], wait the
                \* milliseconds left until the timer is due
  wakeupSec,    \* BackgroundConsciousness.wakeupSec
  tickCount,    \* BackgroundConsciousness.tickCount
  lastTick,     \* BackgroundConsciousness.lastTickAt: << >> while it is 0,
                \* else <<Date.now() - lastTickAt>>
  ticks,        \* episodes awaiting think()/thinkDeep(): [n, deep]
  st,           \* state.json: [bgEnabled, spentUsd, spentCalls, bgWakeupSec]
  messageLock,  \* daemon.ts messageLock
  pc,           \* per message handler: "idle" | "body" | "handling"
  lastOp,       \* the last step: [op, n], the operation it performed and the
                \* number of pause()/resume() calls it made on the scheduler
  bgLog,        \* the consciousness_* entries the last step appended to
                \* events.jsonl
  unhealthyCount, \* the watchdog's unhealthyCount
  exited,       \* process.exit(1) was called
  watchdogWait, \* milliseconds left until the watchdog's next callback.
                \* Spec leaves the watchdog out; SpecWatchdog runs it.
  disk,         \* the files of the data directory, as the file-level
                \* specifications keep them: state.json and its temporary
                \* file, events.jsonl and its rotated generations
  proc,         \* the operation in progress in the file-level
                \* specifications: its position and its locals
  hist,         \* what has happened so far, for the statements about whole
                \* runs: deltas passed to updateBudget, entries logged
  abortTimers   \* the timeouts of think()/thinkDeep() pending: [n, wait], the
                \* tick of the episode and the milliseconds left until its
                \* LLM call is aborted.  Spec leaves them out (an abort may
                \* come at any time); SpecCadence keeps them.  SpecPaused
                \* keeps the timeout of handleMessage() under n = 0.

vars == <<mode, config, running, paused, timer, timers, wakeupSec,
          tickCount, lastTick, ticks, st, messageLock, pc, lastOp, bgLog,
          unhealthyCount, exited, watchdogWait, disk, proc, hist, abortTimers>>

schedVars == <<running, paused, timer, timers, st>>
tickVars == <<tickCount, lastTick, ticks>>
fgVars == <<messageLock, pc>>
envVars == <<mode, config, wakeupSec>>
wdVars == <<unhealthyCount, exited, watchdogWait>>
ioVars == <<disk, proc, hist>>

\* what the scheduler-level specifications hold in the file-level variables
noDisk == [kind |-> "unmodelled"]
noProc == [pc |-> "unmodelled"]
noHist == [kind |-> "unmodelled"]

\* ---- state.ts ------------------------------------------------------------
defaultState ==
  [bgEnabled |-> FALSE, spentUsd |-> 0, spentCalls |-> 0, bgWakeupSec |-> 300]

\* the call count left out of the update
updateBudget_costOnly(s, costUsd, turns) ==
  [s EXCEPT !.spentUsd = @ + costUsd]

updateBudget(s, costUsd, turns) ==
  [s EXCEPT !.spentUsd = @ + costUsd, !.spentCalls = @ + turns]

\* ---- BackgroundConsciousness ---------------------------------------------
\* a tick exactly 3 intervals old still counted as healthy
isHealthy_overdueInclusive ==
  IF ~running THEN TRUE
  ELSE IF lastTick = << >> THEN TRUE
  ELSE lastTick[1] <= wakeupSec * 1000 * 3

isHealthy ==
  IF ~running THEN TRUE
  ELSE IF lastTick = << >> THEN TRUE
  ELSE lastTick[1] < wakeupSec * 1000 * 3

\* setTimeout(cb, wakeupSec * 1000) with pend the timers already pending
setTimeout(pend) ==
  [id  |-> CHOOSE i \in TimerIds :
             /\ \A t \in pend : t.id # i
             /\ \A j \in TimerIds : (\A t \in pend : t.id # j) => i <= j,
   wait |-> wakeupSec * 1000]

\* scheduleNext() called with this.running = run, this.timer = h and pend
\* pending; gives the new <<this.timer, pending timers>>
scheduleNext(run, h, pend) ==
  IF ~run THEN <<h, pend>>
  ELSE LET t == setTimeout(pend) IN <<t.id, pend \cup {t}>>

\* start() clearing the paused flag before its "already running" return
start_clearsPaused ==
  IF running
  THEN paused' = FALSE /\ UNCHANGED <<running, timer, timers, st>>
  ELSE /\ running' = TRUE
       /\ paused' = FALSE
       /\ st' = [st EXCEPT !.bgEnabled = TRUE]
       /\ LET r == scheduleNext(TRUE, timer, timers)
          IN timer' = r[1] /\ timers' = r[2]

start ==
  IF running THEN UNCHANGED schedVars
  ELSE /\ running' = TRUE
       /\ paused' = FALSE
       /\ st' = [st EXCEPT !.bgEnabled = TRUE]
       /\ LET r == scheduleNext(TRUE, timer, timers)
          IN timer' = r[1] /\ timers' = r[2]

\* stop() without the write of bgEnabled to the state file
stop_keepsFlag ==
  /\ running' = FALSE
  /\ timer' = NoTimer
  /\ timers' = {t \in timers : t.id # timer}
  /\ UNCHANGED <<paused, st>>

stop ==
  /\ running' = FALSE
  /\ timer' = NoTimer
  /\ timers' = {t \in timers : t.id # timer}
  /\ st' = [st EXCEPT !.bgEnabled = FALSE]
  /\ UNCHANGED paused

pause ==
  /\ paused' = TRUE
  /\ UNCHANGED <<running, timer, timers>>

\* resume() clearing the flag and leaving the scheduling to the next tick
resume_neverSchedules ==
  IF ~running THEN UNCHANGED <<running, paused, timer, timers>>
  ELSE paused' = FALSE /\ UNCHANGED <<running, timer, timers>>

resume ==
  IF ~running THEN UNCHANGED <<running, paused, timer, timers>>
  ELSE /\ paused' = FALSE
       /\ LET r == IF timer = NoTimer
                   THEN scheduleNext(running, timer, timers)
                   ELSE <<timer, timers>>
          IN timer' = r[1] /\ timers' = r[2]
       /\ UNCHANGED running

\* the cap computed without the Infinity of a limit that is not positive
overBudget_zeroLimitIsCap ==
  st.spentUsd * 100 > config.budgetLimitUsd * config.bgBudgetPct

\* the background cap: budgetLimitUsd * bgBudgetPct / 100, or Infinity
overBudget ==
  /\ config.budgetLimitUsd > 0
  /\ st.spentUsd * 100 > config.budgetLimitUsd * config.bgBudgetPct

\* the cadence decided on the counter as it was before tickCount++
isDeep_beforeIncrement(n) == config.deepMode /\ (n - 1) % DEEP_TICK_INTERVAL = 0

isDeep(n) == config.deepMode /\ n % DEEP_TICK_INTERVAL = 0

\* one timeout for both kinds of episode
episodeTimeout_lightForBoth(deep) == LIGHT_TIMEOUT_MS

\* the delay of the setTimeout that aborts the episode's LLM call
episodeTimeout(deep) == IF deep THEN DEEP_TIMEOUT_MS ELSE LIGHT_TIMEOUT_MS

\* every episode logged as a light one
episodeMode_alwaysLight(deep) == "light"

\* the mode field of the entries think() and thinkDeep() log
episodeMode(deep) == IF deep THEN "deep" ELSE "light"

\* tick() rescheduling itself from its paused branch
tick_reschedulesWhilePaused(pend) ==
  IF ~running \/ paused
  THEN /\ LET r == scheduleNext(running, NoTimer, pend)
          IN timer' = r[1] /\ timers' = r[2]
       /\ bgLog' = << >>
       /\ UNCHANGED <<tickCount, ticks>>
  ELSE IF overBudget
  THEN /\ LET r == scheduleNext(running, NoTimer, pend)
          IN timer' = r[1] /\ timers' = r[2]
       /\ bgLog' = << >>
       /\ UNCHANGED <<tickCount, ticks>>
  ELSE /\ tickCount' = tickCount + 1
       /\ ticks' = ticks \cup {[n |-> tickCount + 1, deep |-> isDeep(tickCount + 1)]}
       /\ bgLog' = <<[type |-> "consciousness_wake",
                      mode |-> episodeMode(isDeep(tickCount + 1))]>>
       /\ timer' = NoTimer /\ timers' = pend

\* tick() up to its first await, entered from the timer callback, which has
\* already set this.timer = null; pend are the timers still pending
tick(pend) ==
  IF ~running \/ paused
  THEN /\ timer' = NoTimer /\ timers' = pend
       /\ bgLog' = << >>
       /\ UNCHANGED <<tickCount, ticks>>
  ELSE IF overBudget
  THEN /\ LET r == scheduleNext(running, NoTimer, pend)
          IN timer' = r[1] /\ timers' = r[2]
       /\ bgLog' = << >>
       /\ UNCHANGED <<tickCount, ticks>>
  ELSE /\ tickCount' = tickCount + 1
       /\ ticks' = ticks \cup {[n |-> tickCount + 1, deep |-> isDeep(tickCount + 1)]}
       /\ bgLog' = <<[type |-> "consciousness_wake",
                      mode |-> episodeMode(isDeep(tickCount + 1))]>>
       /\ timer' = NoTimer /\ timers' = pend

\* tick() after the await giving up on its episode when it finds the
\* scheduler paused: nothing is folded, recorded or scheduled
tickResume_cancelledByPause(e, o) ==
  IF paused
  THEN /\ ticks' = ticks \ {e}
       /\ bgLog' = << >>
       /\ UNCHANGED <<st, lastTick, timer, timers>>
  ELSE /\ ticks' = ticks \ {e}
       /\ st' = IF o.kind # "throw" /\ o.cost > 0
                THEN updateBudget(st, o.cost, o.turns) ELSE st
       /\ bgLog' = IF o.kind = "throw"
                   THEN <<[type |-> "consciousness_error"]>>
                   ELSE <<[type |-> "consciousness_done", mode |-> episodeMode(e.deep),
                           cost |-> o.cost, turns |-> o.turns]>>
       /\ lastTick' = <<0>>
       /\ LET r == scheduleNext(running, timer, timers)
          IN timer' = r[1] /\ timers' = r[2]

\* tick() without its try/catch: an exception of the episode ends tick()
\* before lastTickAt is written and scheduleNext() is called
tickResume_throwEscapes(e, o) ==
  IF o.kind = "throw"
  THEN /\ ticks' = ticks \ {e}
       /\ bgLog' = << >>
       /\ UNCHANGED <<st, lastTick, timer, timers>>
  ELSE /\ ticks' = ticks \ {e}
       /\ st' = IF o.cost > 0 THEN updateBudget(st, o.cost, o.turns) ELSE st
       /\ bgLog' = <<[type |-> "consciousness_done", mode |-> episodeMode(e.deep),
                      cost |-> o.cost, turns |-> o.turns]>>
       /\ lastTick' = <<0>>
       /\ LET r == scheduleNext(running, timer, timers)
          IN timer' = r[1] /\ timers' = r[2]

\* tick() after the await: the episode e came back with outcome o
tickResume(e, o) ==
  /\ ticks' = ticks \ {e}
  /\ st' = IF o.kind # "throw" /\ o.cost > 0
           THEN updateBudget(st, o.cost, o.turns) ELSE st
  /\ bgLog' = IF o.kind = "throw"
              THEN <<[type |-> "consciousness_error"]>>
              ELSE <<[type |-> "consciousness_done", mode |-> episodeMode(e.deep),
                      cost |-> o.cost, turns |-> o.turns]>>
  /\ lastTick' = <<0>>
  /\ LET r == scheduleNext(running, timer, timers)
     IN timer' = r[1] /\ timers' = r[2]

\* ---- configurations and construction -------------------------------------
\* AppConfig as built by daemon.ts (and index.ts for the CLI): the wakeup
\* interval, the budget limit in cents, and the feature toggles.  The first
\* is the configuration of the defaults (no limit); the others take the ends
\* of the wakeup range, a limit of one dollar, and the consciousness feature
\* on and off.
Configs ==
  { [defaultWakeupSec |-> DefaultWakeupSec, budgetLimitUsd |-> 0,
     bgBudgetPct |-> DefaultBgBudgetPct, consciousness |-> TRUE, deepMode |-> TRUE],
    [defaultWakeupSec |-> MinWakeupSec, budgetLimitUsd |-> 100,
     bgBudgetPct |-> DefaultBgBudgetPct, consciousness |-> TRUE, deepMode |-> TRUE],
    [defaultWakeupSec |-> MaxWakeupSec, budgetLimitUsd |-> 100,
     bgBudgetPct |-> DefaultBgBudgetPct, consciousness |-> FALSE, deepMode |-> TRUE] }

\* the state file found at process start
BootStates == {defaultState, [defaultState EXCEPT !.bgEnabled = TRUE]}

\* "Restore consciousness state": whether construction ends with start()
bootStart(m, cfg, s0) ==
  IF m = "daemon" THEN cfg.consciousness /\ s0.bgEnabled ELSE s0.bgEnabled

op(name) == [op |-> name, n |-> 0]

Init ==
  /\ mode \in {"daemon", "cli"}
  /\ config \in Configs
  /\ mode = "cli" => config.consciousness
  /\ wakeupSec = config.defaultWakeupSec
  /\ \E s0 \in BootStates :
       /\ st = s0
       /\ running = bootStart(mode, config, s0)
       /\ LET r == scheduleNext(bootStart(mode, config, s0), NoTimer, {})
          IN timer = r[1] /\ timers = r[2]
  /\ paused = FALSE
  /\ tickCount = 0
  /\ lastTick = << >>
  /\ ticks = {}
  /\ messageLock = FALSE
  /\ pc = [r \in Reqs |-> "idle"]
  /\ lastOp = op("boot")
  /\ bgLog = << >>
  /\ unhealthyCount = 0
  /\ exited = FALSE
  /\ watchdogWait = WATCHDOG_INTERVAL_MS
  /\ abortTimers = {}
  /\ disk = noDisk /\ proc = noProc /\ hist = noHist

\* ---- the event loop ---------------------------------------------------------
room == Cardinality(timers) < MaxTimers
llmInFlight == ticks # {} \/ \E r \in Reqs : pc[r] = "handling"

\* POST /api/consciousness/start, CLI "/bg start"
apiStart ==
  /\ running \/ room
  /\ IF mode = "daemon" /\ ~config.consciousness
     THEN UNCHANGED schedVars /\ lastOp' = op("start_400")
     ELSE start /\ lastOp' = op(IF running THEN "start_running" ELSE "start_stopped")
  /\ bgLog' = << >>
  /\ UNCHANGED <<tickVars, fgVars, envVars, wdVars>>

CallStart == apiStart /\ UNCHANGED <<ioVars, abortTimers>>

\* POST /api/consciousness/stop, CLI "/bg stop"
apiStop ==
  /\ stop
  /\ lastOp' = op("stop")
  /\ bgLog' = << >>
  /\ UNCHANGED <<tickVars, fgVars, envVars, wdVars>>

CallStop == apiStop /\ UNCHANGED <<ioVars, abortTimers>>

\* the toggle_consciousness tool, called by the LLM of an episode or of a
\* foreground message: onToggleConsciousness(enabled)
ToolToggle(enabled) ==
  /\ llmInFlight
  /\ running \/ room
  /\ IF enabled
     THEN start /\ lastOp' = op(IF running THEN "start_running" ELSE "start_stopped")
     ELSE stop /\ lastOp' = op("stop")
  /\ bgLog' = << >>
  /\ UNCHANGED <<tickVars, fgVars, envVars, wdVars, ioVars, abortTimers>>

\* the setTimeout callback of scheduleNext: this.timer = null; this.tick(),
\* with the tick counter kept below maxTicks
timerCallback(t, maxTicks) ==
  /\ t \in timers
  /\ t.wait = 0
  /\ (running /\ ~paused /\ ~overBudget) =>
        tickCount < maxTicks /\ Cardinality(ticks) < MaxInFlight
  /\ tick(timers \ {t})
  /\ lastOp' = op(IF ~running THEN "fire_stopped"
                  ELSE IF paused THEN "fire_paused"
                  ELSE IF overBudget THEN "fire_skip"
                  ELSE "fire_tick")
  /\ UNCHANGED <<running, paused, st, lastTick, fgVars, envVars, wdVars>>

TimerFire(t) == timerCallback(t, MaxTicks) /\ UNCHANGED <<ioVars, abortTimers>>

\* think()/thinkDeep() returns or throws and tick() runs to its end
episodeEnd(e, o) ==
  /\ e \in ticks
  /\ ~running \/ room
  /\ st.spentUsd + o.cost <= MaxSpend
  /\ tickResume(e, o)
  /\ lastOp' = op("tick_" \o o.kind)
  /\ UNCHANGED <<running, paused, tickCount, fgVars, envVars, wdVars>>

TickDone(e, o) == episodeEnd(e, o) /\ UNCHANGED <<ioVars, abortTimers>>

\* the foreground handler from pause() to the await of agent.handleMessage
\* (daemon.ts 297-301, index.ts 154-162)
messageBegin(r) ==
  /\ messageLock' = IF mode = "daemon" THEN TRUE ELSE messageLock
  /\ pause
  /\ lastOp' = [op |-> "msg_begin", n |-> 1]
  /\ pc' = [pc EXCEPT ![r] = "handling"]
  /\ UNCHANGED st

\* a message arrives: POST /api/message up to the await of readBody, or a
\* line of the CLI.  It is served by the first free handler.
msgArrive(r) ==
  /\ pc[r] = "idle"
  /\ \A q \in Reqs : pc[q] = "idle" => r <= q
  /\ IF mode = "daemon"
     THEN /\ IF messageLock
             THEN lastOp' = op("msg_429") /\ UNCHANGED pc
             ELSE lastOp' = op("msg_body") /\ pc' = [pc EXCEPT ![r] = "body"]
          /\ UNCHANGED <<schedVars, messageLock>>
     ELSE messageBegin(r)
  /\ bgLog' = << >>
  /\ UNCHANGED <<tickVars, envVars, wdVars>>

MsgArrive(r) == msgArrive(r) /\ UNCHANGED <<ioVars, abortTimers>>

\* POST /api/message after readBody: 400 on a missing text, else the handler
msgBody(r, valid) ==
  /\ pc[r] = "body"
  /\ IF valid
     THEN messageBegin(r)
     ELSE /\ pc' = [pc EXCEPT ![r] = "idle"]
          /\ lastOp' = op("msg_400")
          /\ UNCHANGED <<schedVars, messageLock>>
  /\ bgLog' = << >>
  /\ UNCHANGED <<tickVars, envVars, wdVars>>

MsgBody(r, valid) == msgBody(r, valid) /\ UNCHANGED <<ioVars, abortTimers>>

\* the handler resuming after the try block instead of in a finally: a
\* throw skips the cleanup
messageEnd_noFinally(r, o) ==
  /\ st' = IF o.kind = "result" /\ (o.cost > 0 \/ o.turns > 0)
           THEN updateBudget(st, o.cost, o.turns) ELSE st
  /\ IF o.kind = "throw"
     THEN /\ UNCHANGED <<messageLock, running, paused, timer, timers>>
          /\ lastOp' = [op |-> "msg_" \o o.kind, n |-> 0]
     ELSE /\ messageLock' = IF mode = "daemon" THEN FALSE ELSE messageLock
          /\ resume
          /\ lastOp' = [op |-> "msg_" \o o.kind, n |-> 1]
  /\ pc' = [pc EXCEPT ![r] = "idle"]

\* agent.handleMessage after its LLM call came back with o, then the
\* handler's catch and finally (daemon.ts 305-323, index.ts 167-188)
messageEnd(r, o) ==
  /\ st' = IF o.kind = "result" /\ (o.cost > 0 \/ o.turns > 0)
           THEN updateBudget(st, o.cost, o.turns) ELSE st
  /\ messageLock' = IF mode = "daemon" THEN FALSE ELSE messageLock
  /\ resume
  /\ lastOp' = [op |-> "msg_" \o o.kind, n |-> 1]
  /\ pc' = [pc EXCEPT ![r] = "idle"]

\* the LLM call of the message comes back with o
msgDone(r, o) ==
  /\ pc[r] = "handling"
  /\ (running /\ timer = NoTimer) => room
  /\ st.spentUsd + o.cost <= MaxSpend
  /\ messageEnd(r, o)
  /\ bgLog' = << >>
  /\ UNCHANGED <<tickVars, envVars, wdVars>>

MsgDone(r, o) == msgDone(r, o) /\ UNCHANGED <<ioVars, abortTimers>>

\* d milliseconds of wall-clock time pass.  An age at or beyond the overdue
\* threshold of isHealthy is kept at the threshold: nothing reads it further.
elapse(d) ==
  /\ timers' = {[id |-> t.id, wait |-> IF t.wait > d THEN t.wait - d ELSE 0] : t \in timers}
  /\ lastTick' = IF lastTick = << >> THEN << >>
                 ELSE IF lastTick[1] + d >= wakeupSec * 1000 * 3
                 THEN <<wakeupSec * 1000 * 3>>
                 ELSE <<lastTick[1] + d>>

\* one wakeup interval passes
passInterval ==
  /\ elapse(wakeupSec * 1000)
  /\ lastOp' = op("advance")
  /\ bgLog' = << >>
  /\ UNCHANGED <<running, paused, timer, st, tickCount, ticks, fgVars, envVars, wdVars>>

Advance == passInterval /\ UNCHANGED <<ioVars, abortTimers>>

Next ==
  \/ CallStart
  \/ CallStop
  \/ \E enabled \in BOOLEAN : ToolToggle(enabled)
  \/ \E t \in timers : TimerFire(t)
  \/ \E e \in ticks, o \in LlmOutcomes : TickDone(e, o)
  \/ \E r \in Reqs : MsgArrive(r)
  \/ \E r \in Reqs, valid \in BOOLEAN : MsgBody(r, valid)
  \/ \E r \in Reqs, o \in LlmOutcomes : MsgDone(r, o)
  \/ Advance

Spec == Init /\ [][Next]_vars

\* ---- the scheduler under the watchdog --------------------------------------
\* a watchdog that keeps its streak over an observation of a stopped scheduler
watchdog_keepsStreakWhenStopped ==
  IF ~running
  THEN UNCHANGED <<unhealthyCount, exited>>
  ELSE IF isHealthy
  THEN unhealthyCount' = 0 /\ UNCHANGED exited
  ELSE /\ unhealthyCount' = unhealthyCount + 1
       /\ exited' = (unhealthyCount + 1 >= WATCHDOG_STREAK)

\* the setInterval callback of the watchdog
watchdog ==
  IF ~running
  THEN unhealthyCount' = 0 /\ UNCHANGED exited
  ELSE IF isHealthy
  THEN unhealthyCount' = 0 /\ UNCHANGED exited
  ELSE /\ unhealthyCount' = unhealthyCount + 1
       /\ exited' = (unhealthyCount + 1 >= WATCHDOG_STREAK)

Watchdog ==
  /\ ~exited
  /\ watchdogWait = 0
  /\ watchdog
  /\ watchdogWait' = WATCHDOG_INTERVAL_MS
  /\ lastOp' = op(IF ~running THEN "watch_stopped"
                  ELSE IF isHealthy THEN "watch_healthy" ELSE "watch_unhealthy")
  /\ bgLog' = << >>
  /\ UNCHANGED <<schedVars, tickVars, fgVars, envVars, ioVars, abortTimers>>

\* the delays still to run of the scheduler's timers and of the watchdog
waits == ({t.wait : t \in timers} \cup {watchdogWait}) \ {0}

\* time passes until the next timer comes due
WatchdogAdvance ==
  /\ ~exited
  /\ waits # {}
  /\ LET d == CHOOSE x \in waits : \A y \in waits : x <= y
     IN /\ elapse(d)
        /\ watchdogWait' = IF watchdogWait > d THEN watchdogWait - d ELSE 0
  /\ lastOp' = op("advance")
  /\ bgLog' = << >>
  /\ UNCHANGED <<running, paused, timer, st, tickCount, ticks, fgVars, envVars,
                 unhealthyCount, exited, ioVars, abortTimers>>

\* the steps of the scheduler and its control surface, in a process that has
\* not exited
LiveStart == ~exited /\ CallStart
LiveStop == ~exited /\ CallStop
LiveFire(t) == ~exited /\ TimerFire(t)
LiveDone(e, o) == ~exited /\ TickDone(e, o)

NextWatchdog ==
  \/ LiveStart
  \/ LiveStop
  \/ \E t \in timers : LiveFire(t)
  \/ \E e \in ticks, o \in LlmOutcomes : LiveDone(e, o)
  \/ WatchdogAdvance
  \/ Watchdog

SpecWatchdog == Init /\ [][NextWatchdog]_vars

\* ---- the scheduler on its own, over CadenceTicks ticks ----------------------
\* The configurations of Configs that enable the scheduler, and the default
\* one with deep mode switched off.
CadenceConfigs ==
  {c \in Configs : c.consciousness}
    \cup {[defaultWakeupSec |-> DefaultWakeupSec, budgetLimitUsd |-> 0,
            bgBudgetPct |-> DefaultBgBudgetPct, consciousness |-> TRUE,
            deepMode |-> FALSE]}

\* the process has restored a scheduler that was enabled
InitCadence ==
  /\ mode \in {"daemon", "cli"}
  /\ config \in CadenceConfigs
  /\ wakeupSec = config.defaultWakeupSec
  /\ st = [defaultState EXCEPT !.bgEnabled = TRUE]
  /\ running = TRUE
  /\ LET r == scheduleNext(TRUE, NoTimer, {})
     IN timer = r[1] /\ timers = r[2]
  /\ paused = FALSE
  /\ tickCount = 0
  /\ lastTick = << >>
  /\ ticks = {}
  /\ messageLock = FALSE
  /\ pc = [r \in Reqs |-> "idle"]
  /\ lastOp = op("boot")
  /\ bgLog = << >>
  /\ unhealthyCount = 0
  /\ exited = FALSE
  /\ watchdogWait = WATCHDOG_INTERVAL_MS
  /\ abortTimers = {}
  /\ disk = noDisk /\ proc = noProc /\ hist = noHist

\* the timer callback; the episode it begins arms its timeout
CadenceFire(t) ==
  /\ timerCallback(t, CadenceTicks)
  /\ abortTimers' = abortTimers \cup
        {[n |-> e.n, wait |-> episodeTimeout(e.deep)] : e \in ticks' \ ticks}
  /\ UNCHANGED ioVars

\* the episode ends: an AbortError only once its timeout has come due; the
\* finally of think()/thinkDeep() clears the timeout
CadenceDone(e, o) ==
  /\ o.kind = "abort" => [n |-> e.n, wait |-> 0] \in abortTimers
  /\ episodeEnd(e, o)
  /\ abortTimers' = {a \in abortTimers : a.n # e.n}
  /\ UNCHANGED ioVars

CadenceAdvance ==
  /\ passInterval
  /\ abortTimers' = {[a EXCEPT !.wait = IF @ > wakeupSec * 1000
                                        THEN @ - wakeupSec * 1000 ELSE 0] :
                       a \in abortTimers}
  /\ UNCHANGED ioVars

NextCadence ==
  \/ \E t \in timers : CadenceFire(t)
  \/ \E e \in ticks, o \in LlmOutcomes : CadenceDone(e, o)
  \/ CadenceAdvance

SpecCadence == InitCadence /\ [][NextCadence]_vars

\* ---- the state file: loadState, saveState, updateBudget, step by step ------
\* A stopped scheduler: the file-level specifications leave it alone.
stoppedScheduler ==
  /\ mode = "daemon"
  /\ config = [defaultWakeupSec |-> DefaultWakeupSec, budgetLimitUsd |-> 0,
               bgBudgetPct |-> DefaultBgBudgetPct, consciousness |-> TRUE,
               deepMode |-> TRUE]
  /\ wakeupSec = DefaultWakeupSec
  /\ st = defaultState
  /\ running = FALSE /\ paused = FALSE
  /\ timer = NoTimer /\ timers = {}
  /\ tickCount = 0 /\ lastTick = << >> /\ ticks = {}
  /\ messageLock = FALSE
  /\ pc = [r \in Reqs |-> "idle"]
  /\ lastOp = op("boot")
  /\ bgLog = << >>
  /\ unhealthyCount = 0 /\ exited = FALSE
  /\ watchdogWait = WATCHDOG_INTERVAL_MS
  /\ abortTimers = {}

schedulerVars ==
  <<mode, config, running, paused, timer, timers, wakeupSec, tickCount,
    lastTick, ticks, st, messageLock, pc, lastOp, bgLog, unhealthyCount,
    exited, watchdogWait, abortTimers>>

\* JSON.stringify and JSON.parse of a non-negative integer: its decimal digits
RECURSIVE stringifyNumber(_)
stringifyNumber(n) ==
  IF n < 10 THEN <<n>> ELSE Append(stringifyNumber(n \div 10), n % 10)

RECURSIVE parseNumber(_)
parseNumber(ds) ==
  IF ds = << >> THEN 0
  ELSE parseNumber(SubSeq(ds, 1, Len(ds) - 1)) * 10 + ds[Len(ds)]

\* JSON.stringify(state, null, 2): the text of state.json
JSON_stringify(s) ==
  [kind |-> "json",
   sessionId |-> s.sessionId,
   spentUsd |-> stringifyNumber(s.spentUsd),
   spentCalls |-> stringifyNumber(s.spentCalls),
   bgEnabled |-> IF s.bgEnabled THEN "true" ELSE "false",
   bgWakeupSec |-> stringifyNumber(s.bgWakeupSec)]

\* JSON.parse of such a text
JSON_parse(text) ==
  [sessionId |-> text.sessionId,
   spentUsd |-> parseNumber(text.spentUsd),
   spentCalls |-> parseNumber(text.spentCalls),
   bgEnabled |-> (text.bgEnabled = "true"),
   bgWakeupSec |-> parseNumber(text.bgWakeupSec)]

\* what a file can hold besides such a text: nothing (no file), a text that
\* is not JSON, the part of a text written so far, the JSON text "null"
Missing == [kind |-> "missing"]
Garbage == [kind |-> "garbage"]
Partial == [kind |-> "partial"]
JsonNull == [kind |-> "null"]

\* defaultState() with the session id crypto.randomUUID() draws
SessionIds == {1, 2}
defaultStateOf(id) ==
  [sessionId |-> id,
   spentUsd |-> defaultState.spentUsd,
   spentCalls |-> defaultState.spentCalls,
   bgEnabled |-> defaultState.bgEnabled,
   bgWakeupSec |-> defaultState.bgWakeupSec]

\* the states a state file left by an earlier run can hold
StoredStates ==
  {[sessionId |-> 1, spentUsd |-> c, spentCalls |-> n, bgEnabled |-> b,
    bgWakeupSec |-> DefaultWakeupSec] : c \in {0, 11}, n \in {0, 3}, b \in BOOLEAN}

\* the deltas updateBudget is called with: cents and turns
BudgetDeltas == [cost : {0, 5, 11}, turns : {0, 1, 3}]

idleProc == [pc |-> "idle", op |-> "none"]

InitStateFile ==
  /\ stoppedScheduler
  /\ \E c \in {Missing, Garbage, JsonNull} \cup {JSON_stringify(s) : s \in StoredStates} :
       /\ disk = [state |-> c, tmp |-> Missing]
       /\ hist = [found |-> c,
                  base |-> IF c.kind = "json" THEN JSON_parse(c) ELSE defaultStateOf(1),
                  cost |-> 0, turns |-> 0, updates |-> 0]
  /\ proc = idleProc

\* loadState(dataDir) is called
CallLoad ==
  /\ proc.pc = "idle"
  /\ proc' = [pc |-> "read", op |-> "load"]
  /\ UNCHANGED <<disk, hist, schedulerVars>>

\* updateBudget(dataDir, costUsd, turns, 0, 0) is called
CallUpdate(d) ==
  /\ proc.pc = "idle"
  /\ hist.updates < MaxUpdates
  /\ proc' = [pc |-> "read", op |-> "update", delta |-> d]
  /\ UNCHANGED <<disk, hist, schedulerVars>>

\* loadState: readFileSync and JSON.parse in the try, the merge with the
\* defaults, and the catch, which goes on to save the defaults.  Gives the
\* position and the state loaded, with id the session id of defaultState().
loadState(content, id) ==
  IF content.kind = "json"
  THEN [pc |-> "loaded", local |-> JSON_parse(content)]
  ELSE IF content.kind = "null"
  THEN [pc |-> "loaded", local |-> defaultStateOf(id)]
  ELSE [pc |-> "write", local |-> defaultStateOf(id)]

Read(id) ==
  /\ proc.pc = "read"
  /\ LET r == loadState(disk.state, id)
     IN proc' = [proc EXCEPT !.pc = r.pc] @@
                [local |-> r.local, found |-> disk.state.kind, next |-> "loaded"]
  /\ UNCHANGED <<disk, hist, schedulerVars>>

\* writeText writing its text over the target file itself
writeText_inPlace(files, text, pos) ==
  IF pos = "write" THEN [files EXCEPT !.state = Partial]
  ELSE IF pos = "writing" THEN [files EXCEPT !.state = text]
  ELSE files

\* writeText(path, text) at position pos: writeFileSync(tmp) beginning
\* ("write") and ending ("writing"), then renameSync(tmp, path) ("rename")
writeText(files, text, pos) ==
  IF pos = "write" THEN [files EXCEPT !.tmp = Partial]
  ELSE IF pos = "writing" THEN [files EXCEPT !.tmp = text]
  ELSE [files EXCEPT !.state = files.tmp, !.tmp = Missing]

\* saveState(dataDir, proc.local), one step of its writeText
Save ==
  /\ proc.pc \in {"write", "writing", "rename"}
  /\ disk' = writeText(disk, JSON_stringify(proc.local), proc.pc)
  /\ proc' = [proc EXCEPT !.pc = IF proc.pc = "write" THEN "writing"
                                 ELSE IF proc.pc = "writing" THEN "rename"
                                 ELSE proc.next]
  /\ hist' = IF proc.pc = "rename" /\ proc.op = "update" /\ proc.next = "done"
             THEN [hist EXCEPT !.cost = @ + proc.delta.cost,
                               !.turns = @ + proc.delta.turns,
                               !.updates = @ + 1]
             ELSE hist
  /\ UNCHANGED schedulerVars

\* loadState has returned: to its caller, or into updateBudget, which adds
\* the deltas and saves
Loaded ==
  /\ proc.pc = "loaded"
  /\ proc' = IF proc.op = "load"
             THEN [pc |-> "idle", op |-> "load", found |-> proc.found,
                   ret |-> proc.local]
             ELSE [proc EXCEPT !.pc = "write", !.next = "done",
                     !.local = updateBudget(proc.local, proc.delta.cost,
                                            proc.delta.turns)]
  /\ UNCHANGED <<disk, hist, schedulerVars>>

\* updateBudget returns the state it saved
Updated ==
  /\ proc.pc = "done"
  /\ proc' = [pc |-> "idle", op |-> "update", found |-> proc.found,
              ret |-> proc.local]
  /\ UNCHANGED <<disk, hist, schedulerVars>>

\* the process dies in the middle of an operation and is started again
Crash ==
  /\ proc.pc # "idle"
  /\ proc' = [pc |-> "idle", op |-> "restart"]
  /\ UNCHANGED <<disk, hist, schedulerVars>>

NextStateFile ==
  \/ CallLoad
  \/ \E d \in BudgetDeltas : CallUpdate(d)
  \/ \E id \in SessionIds : Read(id)
  \/ Save
  \/ Loaded
  \/ Updated
  \/ Crash

SpecStateFile == InitStateFile /\ [][NextStateFile]_vars

\* ---- budgetRemaining --------------------------------------------------------
\* a number, or the Infinity budgetRemaining returns for "no limit"
Infinity == [kind |-> "inf"]
Number(n) == [kind |-> "num", v |-> n]

Math_max(a, b) == IF a >= b THEN a ELSE b

\* the difference returned without the floor at zero
budgetRemaining_noFloor(state, limitUsd) ==
  IF limitUsd <= 0 THEN Infinity
  ELSE Number(limitUsd - state.spentUsd)

budgetRemaining(state, limitUsd) ==
  IF limitUsd <= 0 THEN Infinity
  ELSE Number(Math_max(0, limitUsd - state.spentUsd))

\* limits from below zero to MaxLimit, spends from zero to past every limit
Limits == (0 - 2) .. MaxLimit
Spends == 0 .. (MaxLimit + 2)

InitRemaining ==
  /\ stoppedScheduler
  /\ disk = noDisk /\ hist = noHist
  /\ \E l \in Limits, c \in Spends :
       proc = [pc |-> "args", limitUsd |-> l,
               state |-> [defaultStateOf(1) EXCEPT !.spentUsd = c]]

CallRemaining ==
  /\ proc.pc = "args"
  /\ proc' = [proc EXCEPT !.pc = "result"] @@
             [ret |-> budgetRemaining(proc.state, proc.limitUsd)]
  /\ UNCHANGED <<disk, hist, schedulerVars>>

NextRemaining == CallRemaining

SpecRemaining == InitRemaining /\ [][NextRemaining]_vars

\* ---- Memory.appendLog ------------------------------------------------------
LOG_MAX_BYTES == 5 * 1024 * 1024
LOG_KEEP_ROTATED == 2

\* sizes of the lines appended: a short line, and lines that fill the live
\* file to just under the threshold and to the threshold at once
EntrySizes == {1, LOG_MAX_BYTES - 1, LOG_MAX_BYTES}

RECURSIVE statSize(_)
\* fs.statSync(logPath).size: the bytes of the lines the file holds
statSize(content) ==
  IF content = << >> THEN 0
  ELSE content[1].size + statSize(Tail(content))

\* the files readdirSync lists that remain after the slice: a file stays
\* when fewer than LOG_KEEP_ROTATED names sort before it; here those of the
\* names sorted in ascending order, which keeps the oldest
prune_keepsOldest(rotatedFiles) ==
  {f \in rotatedFiles :
     Cardinality({g \in rotatedFiles : g.name < f.name}) < LOG_KEEP_ROTATED}

\* .sort().reverse() puts the latest timestamp first, slice(LOG_KEEP_ROTATED)
\* is unlinked: a file stays when fewer than LOG_KEEP_ROTATED files are later
prune(rotatedFiles) ==
  {f \in rotatedFiles :
     Cardinality({g \in rotatedFiles : g.name > f.name}) < LOG_KEEP_ROTATED}

\* rotateIfNeeded at time now; a rotated file is named by its timestamp, and
\* renameSync replaces a file of the same name
rotateIfNeeded(files, now) ==
  IF ~files.exists THEN files
  ELSE IF statSize(files.live) < LOG_MAX_BYTES THEN files
  ELSE [exists |-> FALSE,
        live |-> << >>,
        rotated |-> prune({f \in files.rotated : f.name # now}
                          \cup {[name |-> now, content |-> files.live]})]

\* appendFileSync creates the file when it is not there
appendJsonl(files, entry) ==
  [files EXCEPT !.exists = TRUE, !.live = Append(files.live, entry)]

appendLog(files, entry, now) ==
  appendJsonl(rotateIfNeeded(files, now), entry)

InitLog ==
  /\ stoppedScheduler
  /\ proc = noProc
  /\ disk = [exists |-> FALSE, live |-> << >>, rotated |-> {}]
  /\ hist = [appends |-> 0, rotations |-> << >>]

\* one appendLog call; the calls are numbered, and the clock of a call is
\* its number
AppendLog(size) ==
  /\ hist.appends < MaxAppends
  /\ LET now == hist.appends + 1
         entry == [n |-> now, size |-> size]
         rotates == rotateIfNeeded(disk, now) # disk
     IN /\ disk' = appendLog(disk, entry, now)
        /\ hist' = [appends |-> now,
                    rotations |-> IF rotates THEN Append(hist.rotations, now)
                                  ELSE hist.rotations]
  /\ UNCHANGED <<proc, schedulerVars>>

NextLog == \E size \in EntrySizes : AppendLog(size)

SpecLog == InitLog /\ [][NextLog]_vars

\* ---- the state file under the scheduler and the foreground handler ---------
\* saveState run from its first statement to its last
saveState(files, s) ==
  LET text == JSON_stringify(s)
  IN writeText(writeText(writeText(files, text, "write"), text, "writing"),
               text, "rename")

\* loadState run from its first statement to its last, the save of its catch
\* included: the files it leaves and the state it returns
loadStateSync(files, id) ==
  LET r == loadState(files.state, id)
  IN [files |-> IF r.pc = "write" THEN saveState(files, r.local) ELSE files,
      state |-> r.local]

\* updateBudget run from its first statement to its last
updateBudgetSync(files, id, costUsd, turns) ==
  LET l == loadStateSync(files, id)
  IN saveState(l.files, updateBudget(l.state, costUsd, turns))

\* OUROBOROS_WAKEUP_SEC: not set, or a text of decimal digits
EnvUnset == [kind |-> "unset"]
EnvText(ds) == [kind |-> "text", digits |-> ds]
EnvWakeupSec ==
  {EnvUnset, EnvText(<<1>>), EnvText(<<3, 0>>), EnvText(<<7, 2, 0, 0>>),
   EnvText(<<8, 6, 4, 0, 0>>)}

\* parseInt(text, 10) of a text of digits
parseInt(text) == parseNumber(text.digits)

\* buildConfig: defaultWakeupSec
defaultWakeupSecOf(env) ==
  parseInt(IF env.kind = "unset" THEN EnvText(<<3, 0, 0>>) ELSE env)

\* the seconds the LLM passes to set_next_wakeup
WakeupArgs == {MinWakeupSec - 1, MinWakeupSec, MaxWakeupSec, MaxWakeupSec + 1}

\* what the LLM call of an episode or of a message comes back with
LedgerOutcomes ==
  { [kind |-> "result", cost |-> 0, turns |-> 1],
    [kind |-> "result", cost |-> 5, turns |-> 1],
    [kind |-> "throw",  cost |-> 0, turns |-> 0] }

\* The scheduler and the foreground handler as the state file sees them:
\* proc holds the running flag, config.defaultWakeupSec, the in-memory
\* wakeup interval it initialises, and for the
\* episode (bg) and the message (fg) in flight the state each loaded when it
\* began; the timers are left to Spec.
InitLedger ==
  /\ stoppedScheduler
  /\ \E c \in {Missing} \cup {JSON_stringify(s) : s \in StoredStates},
        env \in EnvWakeupSec :
       /\ disk = [state |-> c, tmp |-> Missing]
       /\ hist = [base |-> IF c.kind = "json" THEN JSON_parse(c).spentUsd ELSE 0,
                  cost |-> 0, updates |-> 0]
       /\ proc = [running |-> FALSE,
                  defaultWakeupSec |-> defaultWakeupSecOf(env),
                  wakeupSec |-> defaultWakeupSecOf(env),
                  bg |-> << >>, fg |-> << >>]

\* start(): running, then the read-modify-write of bgEnabled
LedgerStart(id) ==
  /\ ~proc.running
  /\ proc' = [proc EXCEPT !.running = TRUE]
  /\ LET l == loadStateSync(disk, id)
     IN disk' = saveState(l.files, [l.state EXCEPT !.bgEnabled = TRUE])
  /\ UNCHANGED <<hist, schedulerVars>>

\* stop(): running, then the read-modify-write of bgEnabled
LedgerStop(id) ==
  /\ proc' = [proc EXCEPT !.running = FALSE]
  /\ LET l == loadStateSync(disk, id)
     IN disk' = saveState(l.files, [l.state EXCEPT !.bgEnabled = FALSE])
  /\ UNCHANGED <<hist, schedulerVars>>

\* tick() up to the await of its episode: the state loaded for the budget
\* check
LedgerTick(id) ==
  /\ proc.running
  /\ proc.bg = << >>
  /\ LET l == loadStateSync(disk, id)
     IN /\ disk' = l.files
        /\ proc' = [proc EXCEPT !.bg = <<l.state>>]
  /\ UNCHANGED <<hist, schedulerVars>>

\* the fold of think() made into the state tick() loaded before the episode
think_fold_intoLoaded(id, o) ==
  IF o.kind # "throw" /\ o.cost > 0
  THEN saveState(disk, updateBudget(proc.bg[1], o.cost, o.turns))
  ELSE disk

\* think()/thinkDeep() after the stream: if (costUsd > 0) updateBudget(...)
think_fold(id, o) ==
  IF o.kind # "throw" /\ o.cost > 0
  THEN updateBudgetSync(disk, id, o.cost, o.turns)
  ELSE disk

LedgerTickDone(id, o) ==
  /\ proc.bg # << >>
  /\ hist.updates < MaxUpdates
  /\ disk' = think_fold(id, o)
  /\ proc' = [proc EXCEPT !.bg = << >>]
  /\ hist' = IF o.kind # "throw" /\ o.cost > 0
             THEN [hist EXCEPT !.cost = @ + o.cost, !.updates = @ + 1]
             ELSE hist
  /\ UNCHANGED schedulerVars

\* handleMessage up to the await of its LLM call: the read-modify-write of
\* lastInteractionAt, a field the model's state does not carry
LedgerMsg(id) ==
  /\ proc.fg = << >>
  /\ LET l == loadStateSync(disk, id)
     IN /\ disk' = saveState(l.files, l.state)
        /\ proc' = [proc EXCEPT !.fg = <<l.state>>]
  /\ UNCHANGED <<hist, schedulerVars>>

\* handleMessage after the stream: if (costUsd > 0 || turns > 0)
\* updateBudget(...)
handleMessage_fold(id, o) ==
  IF o.kind # "throw" /\ (o.cost > 0 \/ o.turns > 0)
  THEN updateBudgetSync(disk, id, o.cost, o.turns)
  ELSE disk

LedgerMsgDone(id, o) ==
  /\ proc.fg # << >>
  /\ hist.updates < MaxUpdates
  /\ disk' = handleMessage_fold(id, o)
  /\ proc' = [proc EXCEPT !.fg = << >>]
  /\ hist' = IF o.kind # "throw" /\ (o.cost > 0 \/ o.turns > 0)
             THEN [hist EXCEPT !.cost = @ + o.cost, !.updates = @ + 1]
             ELSE hist
  /\ UNCHANGED schedulerVars

\* onSetWakeup writing a fresh default state with the new interval
onSetWakeup_fromDefaults(files, id, sec) ==
  saveState(files, [defaultStateOf(id) EXCEPT !.bgWakeupSec = sec])

\* onSetWakeup: the read-modify-write of bgWakeupSec
onSetWakeup(files, id, sec) ==
  LET l == loadStateSync(files, id)
  IN saveState(l.files, [l.state EXCEPT !.bgWakeupSec = sec])

\* the schema of set_next_wakeup without its upper limit
wakeupSchema_noMax(sec) == sec >= MinWakeupSec

\* z.number().min(30).max(7200)
wakeupSchema(sec) == sec >= MinWakeupSec /\ sec <= MaxWakeupSec

\* the set_next_wakeup tool called by the LLM of an episode or of a message:
\* the arguments checked against the schema, then the handler
LedgerSetWakeup(id, sec) ==
  /\ proc.bg # << >> \/ proc.fg # << >>
  /\ IF ~wakeupSchema(sec)
     THEN UNCHANGED <<disk, proc>>
     ELSE /\ proc' = [proc EXCEPT !.wakeupSec = sec]
          /\ disk' = onSetWakeup(disk, id, sec)
  /\ UNCHANGED <<hist, schedulerVars>>

NextLedger ==
  \E id \in SessionIds :
    \/ LedgerStart(id)
    \/ LedgerStop(id)
    \/ LedgerTick(id)
    \/ \E o \in LedgerOutcomes : LedgerTickDone(id, o)
    \/ LedgerMsg(id)
    \/ \E o \in LedgerOutcomes : LedgerMsgDone(id, o)
    \/ \E sec \in WakeupArgs : LedgerSetWakeup(id, sec)

SpecLedger == InitLedger /\ [][NextLedger]_vars

\* ---- start, ticks, stop: the event log of a run ------------------------------
\* events.jsonl since the last start() of a stopped scheduler, as counts: the
\* consciousness_wake entries of either mode, and the tick() calls that have
\* run to their end
freshLog == [light |-> 0, deep |-> 0, ended |-> 0]

\* the counts after the entries a step appended
logged(h, entries) ==
  [h EXCEPT
     !.light = @ + Cardinality({i \in 1..Len(entries) :
                   entries[i].type = "consciousness_wake" /\ entries[i].mode = "light"}),
     !.deep = @ + Cardinality({i \in 1..Len(entries) :
                   entries[i].type = "consciousness_wake" /\ entries[i].mode = "deep"})]

\* a scheduler constructed and not started, under a configuration that
\* enables it
InitE2E ==
  /\ mode \in {"daemon", "cli"}
  /\ config \in CadenceConfigs
  /\ wakeupSec = config.defaultWakeupSec
  /\ st = defaultState
  /\ running = FALSE /\ paused = FALSE
  /\ timer = NoTimer /\ timers = {}
  /\ tickCount = 0
  /\ lastTick = << >>
  /\ ticks = {}
  /\ messageLock = FALSE
  /\ pc = [r \in Reqs |-> "idle"]
  /\ lastOp = op("boot")
  /\ bgLog = << >>
  /\ unhealthyCount = 0
  /\ exited = FALSE
  /\ watchdogWait = WATCHDOG_INTERVAL_MS
  /\ abortTimers = {}
  /\ disk = noDisk /\ proc = noProc
  /\ hist = freshLog

E2EStart ==
  /\ apiStart
  /\ hist' = IF running THEN hist ELSE freshLog
  /\ UNCHANGED <<disk, proc, abortTimers>>

E2EStop ==
  /\ apiStop
  /\ UNCHANGED <<ioVars, abortTimers>>

E2EFire(t) ==
  /\ timerCallback(t, E2ETicks)
  /\ hist' = logged(hist, bgLog')
  /\ UNCHANGED <<disk, proc, abortTimers>>

E2EDone(e, o) ==
  /\ episodeEnd(e, o)
  /\ hist' = [hist EXCEPT !.ended = @ + 1]
  /\ UNCHANGED <<disk, proc, abortTimers>>

E2EAdvance == passInterval /\ UNCHANGED <<ioVars, abortTimers>>

NextE2E ==
  \/ E2EStart
  \/ E2EStop
  \/ \E t \in timers : E2EFire(t)
  \/ \E e \in ticks, o \in LlmOutcomes : E2EDone(e, o)
  \/ E2EAdvance

SpecE2E == InitE2E /\ [][NextE2E]_vars

\* ---- the episodes: tools and observations -----------------------------------
\* the tools of createOuroborosMcpServer, each with the readOnly annotation it
\* is registered with
McpTools ==
  { [name |-> "update_scratchpad",    readOnly |-> FALSE],
    [name |-> "update_identity",      readOnly |-> FALSE],
    [name |-> "knowledge_read",       readOnly |-> TRUE],
    [name |-> "knowledge_write",      readOnly |-> FALSE],
    [name |-> "knowledge_list",       readOnly |-> TRUE],
    [name |-> "get_status",           readOnly |-> TRUE],
    [name |-> "set_next_wakeup",      readOnly |-> FALSE],
    [name |-> "toggle_consciousness", readOnly |-> FALSE] }

\* the built-in tools the options of think() and thinkDeep() name
BuiltinTools ==
  { [name |-> "Read",         readOnly |-> TRUE],
    [name |-> "Glob",         readOnly |-> TRUE],
    [name |-> "Grep",         readOnly |-> TRUE],
    [name |-> "WebSearch",    readOnly |-> TRUE],
    [name |-> "WebFetch",     readOnly |-> TRUE],
    [name |-> "Write",        readOnly |-> FALSE],
    [name |-> "Edit",         readOnly |-> FALSE],
    [name |-> "Bash",         readOnly |-> FALSE],
    [name |-> "NotebookEdit", readOnly |-> FALSE] }

\* the pattern mcp__<server>__* of allowedTools
McpWildcard == {t.name : t \in McpTools}

\* options.allowedTools of think() and of thinkDeep()
allowedTools(deep) ==
  IF deep
  THEN {"Read", "Glob", "Grep", "WebSearch", "WebFetch", "Write", "Edit", "Bash"}
         \cup McpWildcard
  ELSE {"Read", "Glob", "Grep", "WebSearch", "WebFetch"} \cup McpWildcard

\* options.disallowedTools: given by think(), not by thinkDeep()
disallowedTools(deep) ==
  IF deep THEN {} ELSE {"Write", "Edit", "Bash", "NotebookEdit"}

\* the tools the options of an episode name as allowed and not disallowed
episodeTools(deep) ==
  {t \in McpTools \cup BuiltinTools :
     t.name \in allowedTools(deep) \ disallowedTools(deep)}

\* the observations read for the prompt and left in the array
think_observations_kept(observations) ==
  [attached |-> observations, left |-> observations]

\* observations.splice(0): all of them go into the prompt, none is left
think_observations(observations) ==
  [attached |-> observations, left |-> << >>]

\* the ids of the observations injected in a run
ObservationIds == 1..MaxObservations

\* AppConfig.features with the selfModify toggle
EpisodeConfigs ==
  {c @@ [selfModify |-> b] : c \in CadenceConfigs, b \in BOOLEAN}

\* A scheduler restored as enabled.  proc holds the observations array, the
\* number of observations injected, and the query of the latest episode: its
\* tick, its kind, its tools and the observations in its prompt; hist holds,
\* for every observation, the ticks whose prompt it went into.
InitEpisode ==
  /\ mode \in {"daemon", "cli"}
  /\ config \in EpisodeConfigs
  /\ wakeupSec = config.defaultWakeupSec
  /\ st = [defaultState EXCEPT !.bgEnabled = TRUE]
  /\ running = TRUE
  /\ LET r == scheduleNext(TRUE, NoTimer, {})
     IN timer = r[1] /\ timers = r[2]
  /\ paused = FALSE
  /\ tickCount = 0
  /\ lastTick = << >>
  /\ ticks = {}
  /\ messageLock = FALSE
  /\ pc = [r \in Reqs |-> "idle"]
  /\ lastOp = op("boot")
  /\ bgLog = << >>
  /\ unhealthyCount = 0
  /\ exited = FALSE
  /\ watchdogWait = WATCHDOG_INTERVAL_MS
  /\ abortTimers = {}
  /\ disk = noDisk
  /\ proc = [observations |-> << >>, injected |-> 0, query |-> << >>]
  /\ hist = [i \in ObservationIds |-> {}]

\* injectObservation(text)
EpisodeInject ==
  /\ proc.injected < MaxObservations
  /\ proc' = [proc EXCEPT !.observations = Append(@, proc.injected + 1),
                          !.injected = @ + 1]
  /\ lastOp' = op("inject")
  /\ bgLog' = << >>
  /\ UNCHANGED <<schedVars, tickVars, fgVars, envVars, wdVars, disk, hist,
                 abortTimers>>

\* the timer callback; when tick() gets to an episode, think() or thinkDeep()
\* builds the prompt and the options of its query
EpisodeFire(t) ==
  /\ timerCallback(t, EpisodeTicks)
  /\ IF ticks' = ticks
     THEN UNCHANGED <<proc, hist>>
     ELSE LET e == CHOOSE x \in ticks' : x \notin ticks
              o == think_observations(proc.observations)
          IN /\ proc' = [proc EXCEPT
                           !.observations = o.left,
                           !.query = <<[n |-> e.n, deep |-> e.deep,
                                        tools |-> episodeTools(e.deep),
                                        observed |-> o.attached]>>]
             /\ hist' = [i \in ObservationIds |->
                           IF \E k \in 1..Len(o.attached) : o.attached[k] = i
                           THEN hist[i] \cup {e.n} ELSE hist[i]]
  /\ UNCHANGED <<disk, abortTimers>>

EpisodeDone(e, o) == episodeEnd(e, o) /\ UNCHANGED <<ioVars, abortTimers>>

EpisodeAdvance == passInterval /\ UNCHANGED <<ioVars, abortTimers>>

NextEpisode ==
  \/ EpisodeInject
  \/ \E t \in timers : EpisodeFire(t)
  \/ \E e \in ticks, o \in LlmOutcomes : EpisodeDone(e, o)
  \/ EpisodeAdvance

SpecEpisode == InitEpisode /\ [][NextEpisode]_vars

TypeOK ==
  /\ running \in BOOLEAN /\ paused \in BOOLEAN
  /\ timer \in TimerIds \cup {NoTimer}
  /\ Cardinality(timers) <= MaxTimers
  /\ timer # NoTimer => \E t \in timers : t.id = timer

\* ---- claims -----------------------------------------------------------------
handling == {r \in Reqs : pc[r] = "handling"}
timerIds(ts) == {t.id : t \in ts}

\* C1: while the scheduler is running at most one scheduler timer is pending.
\* Fails: resume() (or stop() then start()) during an in-flight tick schedules
\* a timer, and the tick's own scheduleNext() then schedules a second one.
C1_OneTimerWhileRunning ==
  running => Cardinality(timers) <= 1

\* C2: ticks are serialized, at most one episode is in flight at any time.
\* Fails: with two timers pending, the second fires while the episode started
\* by the first is still awaiting its LLM call.
C2_TicksSerialized ==
  Cardinality(ticks) <= 1

\* C3: at most one POST /api/message request executes agent.handleMessage at
\* a time, and a request arriving while a message is being handled is
\* rejected with 429.  Fails: messageLock is tested before the await of
\* readBody and set after it.
C3_OneMessageAtATime ==
  [][ mode = "daemon" =>
        /\ Cardinality(handling') <= 1
        /\ \A r \in Reqs :
             (pc[r] = "idle" /\ lastOp'.op \in {"msg_429", "msg_body"} /\ handling # {})
                => (lastOp'.op = "msg_429" /\ pc'[r] = "idle") ]_vars

\* C4: no background episode begins while a foreground message is in flight
\* (between the handler's pause() and its resume()).  Fails: start() clears
\* the paused flag, and so does the resume() of another handler.  Stated for
\* the daemon, whose control requests arrive at any time.
C4_NoEpisodeBeginsDuringMessage ==
  [][ (mode = "daemon" /\ handling # {}) => ticks' \subseteq ticks ]_vars

\* C5: a background episode's LLM call and a foreground message's LLM call
\* are never both in flight.  Fails: pause() does not wait for a tick that is
\* already in flight.
C5_OneWriter ==
  ~(ticks # {} /\ handling # {})

\* C6: every foreground handler (daemon and CLI) calls pause() before its LLM
\* call and resume() exactly once when the call ends, whether it returns a
\* result, times out or throws; once the handler has finished, a running
\* scheduler is not paused and has a timer pending.
C6_PauseResumeAroundMessage ==
  [][ \A r \in Reqs :
        /\ (pc[r] # "handling" /\ pc'[r] = "handling")
              => (lastOp'.n = 1 /\ paused')
        /\ (pc[r] = "handling" /\ pc'[r] # "handling")
              => /\ lastOp'.n = 1
                 /\ lastOp'.op \in {"msg_result", "msg_abort", "msg_throw"}
                 /\ running' => (~paused' /\ timer' \in timerIds(timers')) ]_vars

\* a handler whose LLM call threw has finished, and the running scheduler it
\* had paused has a timer pending again
C6_Witness ==
  /\ lastOp = [op |-> "msg_throw", n |-> 1]
  /\ running /\ ~paused
  /\ timer \in timerIds(timers)
  /\ handling = {}

\* C7: immediately after start() on a stopped scheduler the scheduler is
\* running, exactly one timer is pending, and isHealthy() is true as long as
\* no tick has completed.  Fails: a timer orphaned earlier (C1) is still
\* pending next to the one start() schedules.
C7_StartSchedulesOneTimer ==
  [][ lastOp'.op = "start_stopped" =>
        /\ running'
        /\ Cardinality(timers') = 1
        /\ (lastTick' = << >> => isHealthy') ]_vars

\* C8: start() on a running scheduler changes nothing: no timer is added,
\* and the paused flag, the tick counter, the pending timer and the persisted
\* state stay as they are.
C8_StartWhileRunningIsNoOp ==
  [][ lastOp'.op = "start_running" =>
        UNCHANGED <<running, paused, timer, timers, st, tickCount, lastTick,
                    ticks, wakeupSec, messageLock, pc>> ]_vars

\* start() was called on a running scheduler that a foreground message had
\* paused, and the scheduler is still paused with its timer pending
C8_Witness ==
  /\ lastOp.op = "start_running"
  /\ running /\ paused
  /\ timer \in timerIds(timers)

\* C9: after stop() the scheduler is not running, no timer is pending and
\* bgEnabled is false; until the next start() no timer becomes pending and no
\* episode starts.  Fails: stop() clears only this.timer, so a timer orphaned
\* earlier (C1) stays pending.
C9_StopLeavesNothingPending ==
  [][ /\ lastOp'.op = "stop" =>
           (~running' /\ timers' = {} /\ ~st'.bgEnabled)
      /\ (~running /\ ~running' /\ lastOp'.op # "stop") =>
           /\ timerIds(timers') \subseteq timerIds(timers)
           /\ ticks' \subseteq ticks
           /\ st'.bgEnabled = st.bgEnabled ]_vars

\* C10: pause() leaves the scheduled timer and the running flag alone; a
\* timer that fires while the scheduler is paused runs no episode, leaves the
\* tick counter and the ledger unchanged and schedules no timer.
C10_PausedFireIsNoOp ==
  [][ /\ lastOp'.op = "msg_begin" =>
           (paused' /\ UNCHANGED <<running, timer, timers>>)
      /\ (lastOp'.op = "fire_paused") =>
           /\ UNCHANGED <<running, paused, tickCount, ticks, st, lastTick>>
           /\ timers' \subseteq timers
           /\ Cardinality(timers') = Cardinality(timers) - 1
           /\ timer' = NoTimer ]_vars

\* the only pending timer fired while the scheduler was running and paused:
\* nothing is pending afterwards
C10_Witness ==
  /\ lastOp.op = "fire_paused"
  /\ running /\ paused
  /\ timers = {} /\ timer = NoTimer

\* the steps that end an episode, by the outcome of its LLM call
tickEnds == {"tick_result", "tick_abort", "tick_throw"}

\* C11: pause() during an in-flight tick does not cancel it.  The pausing step
\* leaves the episodes in flight alone; the episode that then comes back while
\* the scheduler is paused is completed: it leaves the set of episodes in
\* flight, the cost its consciousness_done entry reports is added to the
\* ledger and the completion time is recorded.  Only timer fires are held
\* back by the pause: a fire while paused begins no episode.
C11_PauseDoesNotCancelTick ==
  [][ /\ lastOp'.op = "msg_begin" => ticks' = ticks
      /\ (paused /\ lastOp'.op \in tickEnds) =>
           /\ ticks' \subseteq ticks
           /\ Cardinality(ticks') = Cardinality(ticks) - 1
           /\ lastTick' = <<0>>
           /\ bgLog' # << >>
           /\ bgLog'[1].type = "consciousness_done" =>
                 st'.spentUsd = st.spentUsd + bgLog'[1].cost
      /\ (paused /\ lastOp'.op = "fire_paused") => ticks' = ticks ]_vars

\* an episode that cost 11 cents came back while a foreground message had the
\* scheduler paused: the ledger holds the cost and the tick is recorded
C11_Witness ==
  /\ lastOp.op = "tick_result"
  /\ running /\ paused /\ handling # {}
  /\ bgLog # << >> /\ bgLog[1].type = "consciousness_done" /\ bgLog[1].cost = 11
  /\ st.spentUsd = 11
  /\ lastTick = <<0>>
  /\ ticks = {}

\* the steps in which a foreground handler ends and calls resume()
msgEnds == {"msg_result", "msg_abort", "msg_throw"}

\* C12: resume() on a running scheduler clears the paused flag, schedules
\* exactly one timer if none is pending and none if one is pending.  Fails:
\* resume() tests this.timer, which the callback of any timer clears, so with
\* a second timer pending (C1) the fire of one makes resume() schedule another
\* next to the one still pending.
C12_ResumeSchedulesOnlyWhenNonePending ==
  [][ (running /\ lastOp'.op \in msgEnds /\ lastOp'.n = 1) =>
        /\ ~paused'
        /\ timers = {} => Cardinality(timers') = 1
        /\ timers # {} => timers' = timers ]_vars

\* C13: with deep mode enabled, the episode run on tick n (the n-th increment
\* of the tick counter), n from 1 to 12, is deep exactly when n is a multiple
\* of 3; this is the mode its consciousness_wake entry records.
C13_DeepEveryThirdTick ==
  [][ (config.deepMode /\ lastOp'.op = "fire_tick") =>
        /\ tickCount' = tickCount + 1
        /\ tickCount' \in 1..CadenceTicks
        /\ ticks' \ ticks = {[n |-> tickCount', deep |-> (tickCount' % 3 = 0)]}
        /\ bgLog' = <<[type |-> "consciousness_wake",
                       mode |-> IF tickCount' % 3 = 0 THEN "deep" ELSE "light"]>> ]_vars

\* tick 12 has begun and its episode is a deep one
C13_Witness ==
  /\ config.deepMode
  /\ lastOp.op = "fire_tick"
  /\ tickCount = 12
  /\ ticks = {[n |-> 12, deep |-> TRUE]}
  /\ bgLog = <<[type |-> "consciousness_wake", mode |-> "deep"]>>

\* C14: every timer fire that finds the scheduler running and not paused
\* increments the tick counter by one, and the activation records its
\* completion time and schedules the next timer.  Fails: tick() makes the
\* budget check before tickCount++, and an activation skipped by it neither
\* counts nor records a completion time.
C14_EveryActivationCounts ==
  [][ /\ lastOp'.op \in {"fire_tick", "fire_skip"} => tickCount' = tickCount + 1
      /\ lastOp'.op = "fire_skip" =>
            (lastTick' = <<0>> /\ timer' \in timerIds(timers')) ]_vars

\* the steps that are the callback of a scheduler timer
fires == {"fire_stopped", "fire_paused", "fire_skip", "fire_tick"}

\* the ledger's spend is above budgetLimit x bgBudgetPct / 100 (in cents)
aboveCap ==
  /\ config.budgetLimitUsd > 0
  /\ st.spentUsd > (config.budgetLimitUsd * config.bgBudgetPct) \div 100

\* C15: a timer fire that finds a running, unpaused scheduler with the spend
\* above the background cap begins no episode and leaves the ledger alone,
\* but schedules one timer in place of the one that fired.  With no positive
\* limit there is no cap: such a fire begins an episode.  No step lowers the
\* spend, so once it is above the cap no step begins an episode.
C15_OverBudgetSkipsButReschedules ==
  [][ /\ (lastOp'.op \in fires /\ running /\ ~paused /\ aboveCap) =>
           /\ ticks' = ticks /\ tickCount' = tickCount
           /\ st' = st
           /\ bgLog' = << >>
           /\ Cardinality(timers') = Cardinality(timers)
           /\ \E t \in timers' : /\ t.id = timer'
                                  /\ t.wait = wakeupSec * 1000
                                  /\ t \notin timers
      /\ (lastOp'.op \in fires /\ running /\ ~paused /\ config.budgetLimitUsd <= 0) =>
           Cardinality(ticks') = Cardinality(ticks) + 1
      /\ st'.spentUsd >= st.spentUsd
      /\ aboveCap => ticks' \subseteq ticks ]_vars

\* a timer fired with the spend at 11 cents and the cap at 10: no episode is
\* in flight and the next timer is pending
C15_Witness ==
  /\ lastOp.op = "fire_skip"
  /\ running /\ ~paused
  /\ config.budgetLimitUsd = 100 /\ st.spentUsd = 11
  /\ ticks = {}
  /\ Cardinality(timers) = 1 /\ timer \in timerIds(timers)

\* C16: when the episode of a tick throws, tick() catches the exception and
\* appends a consciousness_error entry; the step leaves the running flag as
\* it was, ends the episode, records the completion time and, if the
\* scheduler is running, schedules a timer, so that a running scheduler has a
\* timer pending after the failure.
C16_EpisodeFailureIsCaught ==
  [][ lastOp'.op = "tick_throw" =>
        /\ bgLog' = <<[type |-> "consciousness_error"]>>
        /\ running' = running
        /\ ticks' \subseteq ticks /\ Cardinality(ticks') = Cardinality(ticks) - 1
        /\ lastTick' = <<0>>
        /\ st' = st
        /\ running' =>
              /\ Cardinality(timers') = Cardinality(timers) + 1
              /\ \E t \in timers' : /\ t.id = timer'
                                     /\ t.wait = wakeupSec * 1000
                                     /\ t \notin timers ]_vars

\* the episode of a running scheduler threw: the error is logged and the
\* next timer is the only one pending
C16_Witness ==
  /\ lastOp.op = "tick_throw"
  /\ running /\ ~paused
  /\ bgLog = <<[type |-> "consciousness_error"]>>
  /\ ticks = {}
  /\ Cardinality(timers) = 1 /\ timer \in timerIds(timers)

\* C17: every step that ends an episode, whatever the outcome of its LLM
\* call, appends one consciousness_done entry with the episode's mode, and the
\* cost and turn count of that entry are added to the ledger.  Fails: when the
\* call throws, think()/thinkDeep() rethrow past the ledger update and the
\* consciousness_done entry.
C17_EveryEpisodeIsAccounted ==
  [][ lastOp'.op \in tickEnds =>
        /\ Len(bgLog') = 1
        /\ bgLog'[1].type = "consciousness_done"
        /\ \E e \in ticks \ ticks' : bgLog'[1].mode = episodeMode(e.deep)
        /\ st'.spentUsd = st.spentUsd + bgLog'[1].cost
        /\ st'.spentCalls = st.spentCalls + bgLog'[1].turns ]_vars

\* C18: the timeout of an episode is armed with 2 minutes for a light and 5
\* minutes for a deep episode when the episode begins, runs down with time,
\* and the LLM call is aborted only once it has come due.  The aborted
\* episode is complete: it leaves the episodes in flight and logs
\* consciousness_done (at no cost), no episode is begun in its place and the
\* tick counter stays, the completion time is recorded, the running flag is
\* kept and a running scheduler schedules its next timer.
C18_TimeoutEndsEpisode ==
  [][ /\ lastOp'.op = "fire_tick" =>
           \E e \in ticks' \ ticks :
              abortTimers' \ abortTimers =
                 {[n |-> e.n, wait |-> IF e.deep THEN 300000 ELSE 120000]}
      /\ lastOp'.op = "advance" =>
           abortTimers' =
              {[n |-> a.n,
                wait |-> IF a.wait > wakeupSec * 1000
                         THEN a.wait - wakeupSec * 1000 ELSE 0] : a \in abortTimers}
      /\ lastOp'.op = "tick_abort" =>
           /\ \E e \in ticks :
                 /\ ticks' = ticks \ {e}
                 /\ [n |-> e.n, wait |-> 0] \in abortTimers
                 /\ \A a \in abortTimers' : a.n # e.n
                 /\ bgLog' = <<[type |-> "consciousness_done",
                                mode |-> IF e.deep THEN "deep" ELSE "light",
                                cost |-> 0, turns |-> 0]>>
           /\ tickCount' = tickCount
           /\ st' = st
           /\ lastTick' = <<0>>
           /\ running' = running
           /\ running' => \E t \in timers' : /\ t.id = timer'
                                              /\ t.wait = wakeupSec * 1000
                                              /\ t \notin timers ]_vars

\* the deep episode of tick 3 was aborted by its timeout: it is over, the
\* tick is recorded and the next timer is pending
C18_Witness ==
  /\ lastOp.op = "tick_abort"
  /\ running
  /\ tickCount = 3
  /\ bgLog = <<[type |-> "consciousness_done", mode |-> "deep", cost |-> 0, turns |-> 0]>>
  /\ ticks = {} /\ abortTimers = {}
  /\ lastTick = <<0>>
  /\ Cardinality(timers) = 1 /\ timer \in timerIds(timers)

\* C19: isHealthy() is false exactly when the scheduler is running, a tick
\* has completed, and the time since the last completed tick is at least 3
\* times the wakeup interval; in every other state it is true.
C19_UnhealthyIffOverdue ==
  /\ isHealthy \in BOOLEAN
  /\ isHealthy = FALSE <=>
        (running /\ lastTick # << >> /\ lastTick[1] >= 3 * (wakeupSec * 1000))

\* a running scheduler whose last tick completed 90 seconds ago, at a wakeup
\* interval of 30 seconds, is unhealthy
C19_Witness ==
  /\ running
  /\ wakeupSec = 30
  /\ lastTick = <<90000>>
  /\ ~isHealthy

\* the steps that are an observation of the watchdog
watches == {"watch_stopped", "watch_healthy", "watch_unhealthy"}

\* the scheduler is running and its last completed tick is 3 wakeup intervals
\* old or older
overdue == running /\ lastTick # << >> /\ lastTick[1] >= 3 * (wakeupSec * 1000)

\* C20: the watchdog's count is the length of the current streak of
\* unhealthy observations of a running scheduler: an observation that finds
\* the scheduler overdue adds one to it, one that finds it healthy or not
\* running resets it to zero, and no other step changes it.  The process
\* exits in the observation that brings the streak to 5 and in no other step.
C20_ExitAfterFiveUnhealthy ==
  [][ /\ lastOp'.op \in watches =>
           IF overdue
           THEN /\ unhealthyCount' = unhealthyCount + 1
                /\ exited' <=> unhealthyCount' = 5
           ELSE /\ unhealthyCount' = 0
                /\ ~exited'
      /\ lastOp'.op \notin watches =>
           (unhealthyCount' = unhealthyCount /\ exited' = exited)
      /\ unhealthyCount' < 5 => ~exited' ]_vars

\* the fifth unhealthy observation in a row has ended the process
C20_Witness ==
  /\ lastOp.op = "watch_unhealthy"
  /\ running
  /\ unhealthyCount = 5
  /\ exited

\* ---- claims on the state file --------------------------------------------
\* the spend and the call count a state holds
ledger(s) == [spentUsd |-> s.spentUsd, spentCalls |-> s.spentCalls]

\* the ledger the updates made so far add up to
ledgerSum ==
  [spentUsd |-> hist.base.spentUsd + hist.cost,
   spentCalls |-> hist.base.spentCalls + hist.turns]

\* C21: the state an update returns, and the state a later load reads back
\* from the file, hold the initial spend plus the sum of the cost deltas and
\* the initial call count plus the sum of the call deltas of the updates made.
C21_UpdatesAddUpAndSurviveReload ==
  (proc.pc = "idle" /\ proc.op \in {"load", "update"})
    => ledger(proc.ret) = ledgerSum

C21_Witness ==
  /\ proc.pc = "idle" /\ proc.op = "load"
  /\ hist.updates = 2
  /\ hist.cost = 16 /\ hist.turns = 4
  /\ proc.ret.spentUsd = hist.base.spentUsd + 16
  /\ proc.ret.spentCalls = hist.base.spentCalls + 4

\* C26: a load that found the state file missing or corrupt returns the
\* default state and leaves it in the file, so that the next load reads the
\* same state back.
C26_LoadFallsBackAndPersists ==
  (proc.pc = "idle" /\ proc.op = "load"
   /\ proc.found \in {"missing", "garbage", "null"})
    => /\ \E id \in SessionIds : proc.ret = defaultStateOf(id)
       /\ disk.state = JSON_stringify(proc.ret)

\* C27: every step of a save, and a crash at any of them, leaves the state
\* file either as it was or holding the complete text of the state being
\* saved.
C27_SaveIsAtomic ==
  [][\/ disk'.state = disk.state
     \/ (proc.pc = "rename" /\ disk'.state = JSON_stringify(proc.local))]_vars

C27_Witness ==
  /\ proc.pc = "idle" /\ proc.op = "restart"
  /\ disk.tmp = Partial
  /\ disk.state.kind = "json"
  /\ hist.updates = 1

\* ---- claims on budgetRemaining -------------------------------------------
\* C25: budgetRemaining is Infinity for a limit of zero or less; for a positive
\* limit it is what is left of the limit, zero once the spend has reached it,
\* and never a negative number.
C25_RemainingIsFlooredDifference ==
  proc.pc = "result" =>
    LET l == proc.limitUsd
        c == proc.state.spentUsd
        r == proc.ret
    IN /\ l <= 0 => r = Infinity
       /\ l > 0 => /\ r.kind = "num"
                   /\ r.v >= 0
                   /\ c >= l => r.v = 0
                   /\ c < l => r.v + c = l

C25_Witness ==
  /\ proc.pc = "result"
  /\ proc.limitUsd = 3 /\ proc.state.spentUsd = 5
  /\ proc.ret = Number(0)

\* ---- claims on the log ----------------------------------------------------
\* the names of the rotated files
rotatedNames(files) == {f.name : f \in files.rotated}

\* the line the step appends
appended == [n |-> hist'.appends, size |-> disk'.live[Len(disk'.live)].size]

\* C28: an append to a live file larger than the threshold leaves exactly one
\* new rotated file, holding what the live file held, and a live file holding
\* the appended line alone; an append to a live file not larger than the
\* threshold leaves the rotated files as they were and the line at the end of
\* the live file.
C28_AppendRotatesPastThreshold ==
  [][IF disk.exists /\ statSize(disk.live) > LOG_MAX_BYTES
     THEN /\ \E f \in disk'.rotated :
               /\ rotatedNames(disk') \ rotatedNames(disk) = {f.name}
               /\ f.content = disk.live
          /\ disk'.live = <<appended>>
     ELSE /\ disk'.rotated = disk.rotated
          /\ disk'.live = Append(disk.live, appended)]_vars

\* the last k elements of a sequence, all of it when it is shorter
lastOf(seq, k) ==
  {seq[i] : i \in {j \in 1..Len(seq) : j > Len(seq) - k}}

\* C29: at most 2 rotated files exist, and they are the files of the latest
\* rotations.
C29_KeepsLatestTwoGenerations ==
  /\ Cardinality(disk.rotated) <= 2
  /\ rotatedNames(disk) = lastOf(hist.rotations, 2)

C29_Witness ==
  /\ Len(hist.rotations) = 4
  /\ Cardinality(disk.rotated) = 2
  /\ rotatedNames(disk) = {hist.rotations[3], hist.rotations[4]}

\* ---- claims on the ledger under interleaving ------------------------------
\* the state the state file holds: what a load would return
persisted(files) ==
  IF files.state.kind = "json" THEN JSON_parse(files.state) ELSE defaultStateOf(1)

\* C22: after every step of every interleaving of episodes, messages, start,
\* stop and set_next_wakeup, the persisted spend is the initial spend plus the
\* sum of the cost deltas passed to updateBudget, and a step that is not a
\* budget update leaves the persisted spend and call count as they were.
C22_NoUpdateLost ==
  [][/\ persisted(disk').spentUsd = hist'.base + hist'.cost
     /\ hist'.updates = hist.updates =>
          ledger(persisted(disk')) = ledger(persisted(disk))]_vars

C22_Witness ==
  /\ hist.updates = 2 /\ hist.cost = 10
  /\ proc.fg # << >> /\ proc.fg[1].spentUsd = hist.base
  /\ proc.bg # << >> /\ proc.bg[1].spentUsd = hist.base + 10
  /\ persisted(disk).spentUsd = hist.base + 10
  /\ persisted(disk).bgWakeupSec = MinWakeupSec

\* C23: no step of the scheduler, of the foreground handler, of start, stop
\* or set_next_wakeup lowers the persisted spend.
C23_SpendNeverDecreases ==
  [][persisted(disk').spentUsd >= persisted(disk).spentUsd]_vars

C23_Witness ==
  /\ hist.updates = 1
  /\ persisted(disk).spentUsd = hist.base + 5
  /\ persisted(disk).bgWakeupSec = MaxWakeupSec
  /\ ~persisted(disk).bgEnabled /\ ~proc.running
  /\ proc.bg = << >> /\ proc.fg = << >>

\* C24 as stated: the in-memory wakeup interval and the persisted bgWakeupSec
\* both lie in 30..7200 in every reachable state.
C24_WakeupAlwaysInRange ==
  /\ proc.wakeupSec \in 30..7200
  /\ persisted(disk).bgWakeupSec \in 30..7200

\* C24: the persisted bgWakeupSec lies in 30..7200 in every reachable state;
\* the in-memory interval is the configured defaultWakeupSec until the first
\* set_next_wakeup that passes the schema, and from then on equals the
\* persisted bgWakeupSec.
C24_PersistedWakeupInRange ==
  /\ persisted(disk).bgWakeupSec \in 30..7200
  /\ \/ proc.wakeupSec = proc.defaultWakeupSec
     \/ proc.wakeupSec = persisted(disk).bgWakeupSec

C24_Witness ==
  /\ proc.defaultWakeupSec = 1
  /\ proc.wakeupSec = 7200
  /\ persisted(disk).bgWakeupSec = 7200

query == proc.query[1]

\* C31: every tool given to a light episode is read-only, and the code-editing
\* and shell tools are given to deep episodes alone.
C31_LightEpisodeIsReadOnly ==
  (proc.query # << >> /\ ~query.deep) =>
    /\ \A t \in query.tools : t.readOnly
    /\ \A t \in query.tools : t.name \notin {"Write", "Edit", "Bash"}

\* C32: the episode a tick begins takes every observation then in the array
\* into its prompt and leaves the array empty, and no observation has gone
\* into the prompts of two episodes.
C32_ObservationsConsumedOnce ==
  [][ /\ lastOp'.op = "fire_tick" =>
           /\ proc'.query[1].observed = proc.observations
           /\ proc'.observations = << >>
      /\ \A i \in ObservationIds : Cardinality(hist'[i]) <= 1 ]_vars

\* two observations, injected at different times, each in the prompt of one
\* episode, and a later episode that found the array empty
C32_Witness ==
  /\ hist[1] = {1} /\ hist[2] = {2}
  /\ proc.observations = << >>
  /\ proc.query # << >> /\ query.n = 3 /\ query.observed = << >>

\* C39: with the selfModify toggle off, no episode is given Write, Edit or
\* Bash.
C39_NoCodeToolsWithoutSelfModify ==
  (proc.query # << >> /\ ~config.selfModify) =>
    \A t \in query.tools : t.name \notin {"Write", "Edit", "Bash"}

\* ---- claims on stalls and health ------------------------------------------
\* C33: whenever the scheduler is running, not paused and has no tick in
\* flight, the timer it holds is pending in the event loop.
C33_NoStall ==
  (running /\ ~paused /\ ticks = {}) =>
    /\ timer # NoTimer
    /\ \E t \in timers : t.id = timer


\* a message handler has just resumed the scheduler before its first tick,
\* and the one timer pending is the timer the scheduler holds
C33_Witness ==
  /\ lastOp.op \in msgEnds /\ lastOp.n = 1
  /\ running /\ ~paused /\ ticks = {}
  /\ tickCount = 0
  /\ Cardinality(timers) = 1
  /\ \E t \in timers : t.id = timer /\ t.wait = wakeupSec * 1000


\* C34: right after a start() that takes the scheduler from stopped to
\* running, isHealthy() is true.
C34_HealthyAfterStart ==
  [][lastOp'.op = "start_stopped" => isHealthy']_vars


\* ---- a running scheduler under the watchdog, never stopped ------------------
\* the process has restored a scheduler that was enabled
InitSkips == Init /\ running

\* time passes in an idle event loop: no callback of a timer is due
SkipsAdvance ==
  /\ \A t \in timers : t.wait > 0
  /\ watchdogWait > 0
  /\ WatchdogAdvance

\* the timer callbacks, the ends of episodes and the watchdog: no start(), no
\* stop(), no foreground message
NextSkips ==
  \/ \E t \in timers : LiveFire(t)
  \/ \E e \in ticks, o \in LlmOutcomes : LiveDone(e, o)
  \/ SkipsAdvance
  \/ Watchdog

SpecSkips == InitSkips /\ [][NextSkips]_vars

\* C35: a running scheduler over its background budget, with no episode in
\* flight (its timer callbacks take the skip branch), reports isHealthy() =
\* true, and the watchdog has not forced the process to exit.
C35_SkipsStayHealthy ==
  (running /\ overBudget /\ ticks = {}) => (isHealthy /\ ~exited)


\* ---- the daemon's scheduler under the watchdog, with foreground messages ----
\* setTimeout(() => abortController.abort(), 10 * 60 * 1000) of handleMessage
MESSAGE_TIMEOUT_MS == 600000

\* the timeout of the foreground message in flight
messageTimers == {a \in abortTimers : a.n = 0}

\* the daemon has restored a scheduler that was enabled, its interval the
\* shortest one
InitPaused ==
  Init /\ running /\ mode = "daemon" /\ config.defaultWakeupSec = MinWakeupSec

PausedArrive(r) ==
  /\ ~exited
  /\ msgArrive(r)
  /\ UNCHANGED <<ioVars, abortTimers>>

\* after readBody; handleMessage arms its timeout before the LLM call
PausedBody(r, valid) ==
  /\ ~exited
  /\ msgBody(r, valid)
  /\ abortTimers' = IF valid
                    THEN abortTimers \cup {[n |-> 0, wait |-> MESSAGE_TIMEOUT_MS]}
                    ELSE abortTimers
  /\ UNCHANGED ioVars

\* the LLM call of the message ends: aborted only once its timeout has come
\* due; the finally of handleMessage clears the timeout
PausedDone(r, o) ==
  /\ ~exited
  /\ o.kind = "abort" => [n |-> 0, wait |-> 0] \in abortTimers
  /\ msgDone(r, o)
  /\ abortTimers' = abortTimers \ messageTimers
  /\ UNCHANGED ioVars

\* the delays still to run of the scheduler's timers, of the watchdog and of
\* the message's timeout
pausedWaits == {t.wait : t \in timers} \cup {watchdogWait}
                 \cup {a.wait : a \in messageTimers}

\* time passes in an event loop with no callback due, up to the next one
PausedAdvance ==
  /\ ~exited
  /\ pausedWaits # {}
  /\ 0 \notin pausedWaits
  /\ LET d == CHOOSE x \in pausedWaits : \A y \in pausedWaits : x <= y
     IN /\ elapse(d)
        /\ watchdogWait' = watchdogWait - d
        /\ abortTimers' = {[a EXCEPT !.wait = @ - d] : a \in abortTimers}
  /\ lastOp' = op("advance")
  /\ bgLog' = << >>
  /\ UNCHANGED <<running, paused, timer, st, tickCount, ticks, fgVars, envVars,
                 unhealthyCount, exited, ioVars>>

NextPaused ==
  \/ \E r \in Reqs : PausedArrive(r)
  \/ \E r \in Reqs, valid \in BOOLEAN : PausedBody(r, valid)
  \/ \E r \in Reqs, o \in LlmOutcomes : PausedDone(r, o)
  \/ \E t \in timers : LiveFire(t)
  \/ \E e \in ticks, o \in LlmOutcomes : LiveDone(e, o)
  \/ PausedAdvance
  \/ Watchdog

SpecPaused == InitPaused /\ [][NextPaused]_vars

\* C36: an observation of the watchdog made while the scheduler is paused
\* for a foreground message in flight does not count as unhealthy and does
\* not force the process to exit.
C36_PausedIsNotUnhealthy ==
  [][(paused /\ (\E r \in Reqs : pc[r] = "handling")
        /\ lastOp'.op \in {"watch_stopped", "watch_healthy", "watch_unhealthy"})
      => (lastOp'.op # "watch_unhealthy" /\ ~exited')]_vars


\* ---- claims on the persisted flag and the feature toggle ---------------------
\* C37: in every reachable state of a process the persisted bgEnabled equals
\* the scheduler's running flag.
C37_PersistedFlagIsRunning ==
  st.bgEnabled = running

\* the daemon was constructed with the feature switched off over a state
\* file that has the scheduler enabled, and no start() or stop() has run
restoreSkipped ==
  /\ mode = "daemon"
  /\ ~config.consciousness
  /\ st.bgEnabled
  /\ ~running

\* C37 (amended): the persisted bgEnabled equals the running flag, except in
\* a daemon whose feature toggle is off and which found bgEnabled = true in
\* the state file: there the flag stays true with the scheduler stopped.
C37_PersistedFlagIsRunningUnlessSkipped ==
  ~restoreSkipped => st.bgEnabled = running

\* a scheduler that has ticked was stopped, and the flag went back to false
C37_Witness ==
  /\ lastOp.op = "stop"
  /\ tickCount > 0
  /\ ~running
  /\ ~st.bgEnabled


\* C38: in a daemon whose background-consciousness feature toggle is off the
\* scheduler is never running.
C38_FeatureOffNeverRunning ==
  (mode = "daemon" /\ ~config.consciousness) => ~running


\* C40: in every reachable state the interval scheduleNext() uses for the
\* next timer, the in-memory wakeupSec, equals the persisted bgWakeupSec.
C40_IntervalIsPersisted ==
  proc.wakeupSec = persisted(disk).bgWakeupSec

====
